---- MODULE Spec2Model ----
(***************************************************************************)
(* NeuroScreen.                                                            *)
(*   phase1/predict_bbb_drugs.py : the phase-1 batch run (load, map the    *)
(*       labels, stratified split, fit, evaluate, save the model, write    *)
(*       the BBB+ candidate CSV).                                          *)
(*   ui/app.py : the Streamlit dashboard (cached load_data, the analysis   *)
(*       page: status check, filter, leaderboard, inspector, evidence).    *)
(***************************************************************************)
EXTENDS Integers, Sequences, FiniteSets, TLC

VARIABLES
    \* ---- phase 1 ----
    B3DB,        \* B3DB_DATA_DICT["B3DB_classification_extended"]: the compound table
    rng,         \* <<s>>: the stream the seed random_state=42 yields, the same in every
                 \* run; <<>> until the first draw from it
    pc,          \* position of main()
    df_ext,      \* the loaded table
    y_ext,       \* mapped target: 1, 0, or NaN
    train,       \* row indices of the training subset (sequence)
    test,        \* row indices of the test subset (sequence)
    model,       \* the in-memory classifier
    log,         \* what main() has printed in this run (tags)
    modelFile,   \* phase1/outputs/phase1_model.pkl
    csvFile,     \* phase1/outputs/bbb_positive_drugs_v2.csv
    runs,        \* number of runs of main() started
    firstDone,   \* history: the two output files as the first completed run left them
    \* ---- dashboard ----
    finalFile,   \* final_ranked_candidates.csv
    papersFile,  \* phase3/outputs/phase3_papers.csv
    cache,       \* st.cache_data entry of load_data()
    page,        \* what the last script run rendered
    diskAtRender,\* history: the two table files as they were at the last render
    edits        \* number of times the pipeline has touched the table files

p1vars == <<B3DB, rng, pc, df_ext, y_ext, train, test, model, log, modelFile, csvFile,
            runs, firstDone>>
uivars == <<finalFile, papersFile, cache, page, diskAtRender, edits>>
vars == <<p1vars, uivars>>

----------------------------------------------------------------------------
\* Bounds

MaxRows == 6        \* rows of the compound table
NumStreams == 2     \* random streams considered for the fixed seed
MaxRuns == 2        \* runs of the phase-1 script
MaxEdits == 2       \* times the pipeline rewrites the dashboard's tables
MaxSmall == 1       \* rows of a table where the dashboard's files change
MaxFinal == 7       \* rows of the final ranked table in the leaderboard runs
MaxPapers == 7      \* rows of the evidence table in the evidence runs

----------------------------------------------------------------------------
\* Generic helpers

Range(s) == {s[i] : i \in 1..Len(s)}

Take(s, k) == SubSeq(s, 1, IF k < Len(s) THEN k ELSE Len(s))

RECURSIVE Mask(_, _)
\* boolean-mask selection df[mask]: the rows whose mask entry is TRUE, in row order
Mask(s, m) ==
    IF s = <<>> THEN <<>>
    ELSE (IF Head(m) THEN <<Head(s)>> ELSE <<>>) \o Mask(Tail(s), Tail(m))

SeqsUpTo(S, k) == UNION {[1..len -> S] : len \in 0..k}

----------------------------------------------------------------------------
\* Phase 1: configuration and data (predict_bbb_drugs.py)

TestPercent == 20          \* test_size=0.2
n_estimators == 200
random_state == 42

NaN == 2                   \* the value Series.map gives a key missing from the dict

\* Rows of the compound table: the metadata columns the candidate list keeps and the
\* label column "BBB+/BBB-".  The last row carries a label outside {BBB+, BBB-}.
CompoundRows ==
    { [compound_name |-> "a", SMILES |-> "C", label |-> "BBB+"],
      [compound_name |-> "b", SMILES |-> "N", label |-> "BBB+"],
      [compound_name |-> "c", SMILES |-> "O", label |-> "BBB-"],
      [compound_name |-> "d", SMILES |-> "S", label |-> "bbb+"] }

CompoundTables == SeqsUpTo(CompoundRows, MaxRows)

Streams == 0..(NumStreams - 1)

\* check_random_state(42): the streams a generator seeded with the fixed seed can
\* yield, given what it yielded before
SeededStreams(r) == IF r = <<>> THEN Streams ELSE {r[1]}

\* Output files.  state: "absent", "stale" (content from before the first run),
\* "partial" (opened for writing, not completed) or "written".
NoModel ==
    [fitted |-> FALSE, estimators |-> 0, seed |-> 0, train |-> <<>>, y_train |-> <<>>]
AbsentModelFile == [state |-> "absent", model |-> NoModel]
StaleModelFile == [state |-> "stale", model |-> NoModel]
AbsentCsvFile == [state |-> "absent", header |-> <<>>, rows |-> <<>>]
StaleCsvFile ==
    [state |-> "stale", header |-> <<"compound_name", "SMILES">>,
     rows |-> << <<"z", "P">> >>]

\* df_ext["BBB+/BBB-"].map({"BBB+": 1, "BBB-": 0}).values
MapLabelDefaultZero(l) == IF l = "BBB+" THEN 1 ELSE 0
MapLabel(l) == IF l = "BBB+" THEN 1 ELSE IF l = "BBB-" THEN 0 ELSE NaN

MapTarget(df) == [i \in 1..Len(df) |-> MapLabel(df[i].label)]

----------------------------------------------------------------------------
\* train_test_split(X, y, test_size=0.2, random_state=42, stratify=y)

\* rng.permutation(k): a permutation of 1..k fixed by the stream
RngPermutation(k, s) == [i \in 1..k |-> ((i - 1 + s) % k) + 1]

\* rng.choice(inds, size=1): one element of a non-empty sequence, fixed by the stream
RngChoice(inds, s) == inds[(s % Len(inds)) + 1]

\* math.ceil(test_size * n_samples)
NTest(n) == (TestPercent * n + 99) \div 100
\* n_train = n_samples - n_test
NTrain(n) == n - NTest(n)

\* np.unique(y): the classes present
Classes(y) == Range(y)

\* class_indices[c]: the row indices of class c in ascending order (stable argsort)
ClassIndices(y, c) == Mask([i \in 1..Len(y) |-> i], [i \in 1..Len(y) |-> y[i] = c])

ClassCounts(y) == [c \in Classes(y) |-> Len(ClassIndices(y, c))]

RECURSIVE SumOver(_, _)
SumOver(f, S) ==
    IF S = {} THEN 0
    ELSE LET c == CHOOSE x \in S : TRUE IN f[c] + SumOver(f, S \ {c})

\* classes in ascending order, as a sequence
RECURSIVE Ascending(_)
Ascending(S) ==
    IF S = {} THEN <<>>
    ELSE LET m == CHOOSE x \in S : \A z \in S : x <= z IN <<m>> \o Ascending(S \ {m})

\* _approximate_mode(class_counts, n_draws, rng): floor of the proportional share per
\* class, the remaining draws going to the classes of largest remainder, ties among
\* equal remainders broken by rng.choice.
RECURSIVE AddRemaining(_, _, _, _, _)
AddRemaining(floored, remainder, todo, need, s) ==
    IF need = 0 \/ todo = {} THEN floored
    ELSE LET value == CHOOSE v \in {remainder[c] : c \in todo} :
                          \A c \in todo : remainder[c] <= v
             inds == Ascending({c \in todo : remainder[c] = value})
             pick == RngChoice(inds, s)
         IN  AddRemaining([floored EXCEPT ![pick] = @ + 1], remainder,
                          todo \ {pick}, need - 1, s + 1)

ApproximateMode(class_counts, n_draws, s) ==
    LET K == DOMAIN class_counts
        total == SumOver(class_counts, K)
        floored == [c \in K |-> (class_counts[c] * n_draws) \div total]
        remainder == [c \in K |-> (class_counts[c] * n_draws) % total]
        need_to_add == n_draws - SumOver(floored, K)
    IN  AddRemaining(floored, remainder, K, need_to_add, s)

\* The checks that make the split raise ValueError
SplitRaises(y) ==
    LET n == Len(y) IN
    \/ NTrain(n) = 0                                \* the resulting train set is empty
    \/ NaN \in Classes(y)                           \* check_array(y): input contains NaN
    \/ \E c \in Classes(y) : ClassCounts(y)[c] < 2  \* least populated class has 1 member
    \/ NTrain(n) < Cardinality(Classes(y))
    \/ NTest(n) < Cardinality(Classes(y))

\* StratifiedShuffleSplit._iter_indices, first (only) split
RECURSIVE PerClass(_, _, _, _, _, _)
PerClass(y, cs, n_i, t_i, s, which) ==
    IF cs = <<>> THEN <<>>
    ELSE LET c == Head(cs)
             idx == ClassIndices(y, c)
             perm == RngPermutation(Len(idx), s)
             permuted == [j \in 1..Len(idx) |-> idx[perm[j]]]
             part == IF which = "train" THEN SubSeq(permuted, 1, n_i[c])
                     ELSE SubSeq(permuted, n_i[c] + 1, n_i[c] + t_i[c])
         IN  part \o PerClass(y, Tail(cs), n_i, t_i, s + 1, which)

Shuffle(seq, s) ==
    IF seq = <<>> THEN <<>>
    ELSE LET perm == RngPermutation(Len(seq), s) IN [j \in 1..Len(seq) |-> seq[perm[j]]]

UnstratifiedSplit(y, s) ==
    LET n == Len(y)
        all == Shuffle([i \in 1..n |-> i], s)
    IN  [train |-> SubSeq(all, NTest(n) + 1, n), test |-> SubSeq(all, 1, NTest(n))]
StratifiedSplit(y, s) ==
    LET n == Len(y)
        counts == ClassCounts(y)
        n_i == ApproximateMode(counts, NTrain(n), s)
        remaining == [c \in DOMAIN counts |-> counts[c] - n_i[c]]
        t_i == ApproximateMode(remaining, NTest(n), s + 1)
        cs == Ascending(Classes(y))
    IN  [train |-> Shuffle(PerClass(y, cs, n_i, t_i, s + 2, "train"), s + 4),
         test |-> Shuffle(PerClass(y, cs, n_i, t_i, s + 2, "test"), s + 5)]

----------------------------------------------------------------------------
\* Steps 4-7 of main()

\* RandomForestClassifier(n_estimators=200, random_state=42).fit(X_train, y_train):
\* with the seed fixed, the fitted model is a function of the training rows.
Fit(tr, y) ==
    [fitted |-> TRUE, estimators |-> n_estimators, seed |-> random_state,
     train |-> tr, y_train |-> [j \in 1..Len(tr) |-> y[tr[j]]]]

\* df_ext[df_ext["BBB+/BBB-"] == "BBB+"]
IsPositive(r) == r.label = "BBB+"

BBBPositive(df) == Mask(df, [i \in 1..Len(df) |-> IsPositive(df[i])])

\* bbb_positive[["compound_name", "SMILES"]]
RECURSIVE Dedupe(_)
Dedupe(s) ==
    IF s = <<>> THEN <<>>
    ELSE LET r == Dedupe(SubSeq(s, 1, Len(s) - 1))
         IN  IF s[Len(s)] \in Range(r) THEN r ELSE Append(r, s[Len(s)])
SelectColumnsUnique(df) == Dedupe([i \in 1..Len(df) |-> <<df[i].compound_name, df[i].SMILES>>])
SelectColumns(df) == [i \in 1..Len(df) |-> <<df[i].compound_name, df[i].SMILES>>]

\* final_list.to_csv(CSV_PATH, index=False): mode "w", the file is replaced
ToCsvAppend(existing, final_list) ==
    [state |-> "written", header |-> <<"compound_name", "SMILES">>,
     rows |-> existing.rows \o final_list]
ToCsv(existing, final_list) ==
    [state |-> "written", header |-> <<"compound_name", "SMILES">>, rows |-> final_list]

\* joblib.dump(model, MODEL_PATH)
JoblibDump(existing, m) == [state |-> "written", model |-> m]


----------------------------------------------------------------------------
\* Phase 1: main() as a state machine

NotDone ==
    [set |-> FALSE, run |-> 0, modelFile |-> AbsentModelFile, csvFile |-> AbsentCsvFile]

P1Init ==
    /\ B3DB \in CompoundTables
    /\ rng = <<>>
    /\ pc = "start"
    /\ df_ext = <<>>
    /\ y_ext = <<>>
    /\ train = <<>>
    /\ test = <<>>
    /\ model = NoModel
    /\ log = <<>>
    /\ \/ modelFile = AbsentModelFile /\ csvFile = AbsentCsvFile     \* a fresh OUTPUT_DIR
       \/ modelFile = StaleModelFile /\ csvFile = StaleCsvFile       \* outputs of old
    /\ runs = 1
    /\ firstDone = NotDone

\* Steps 1-3: load the dataset, map the target, split; a ValueError of the split
\* ends the run
LoadAndSplit ==
    /\ pc = "start"
    /\ df_ext' = B3DB
    /\ y_ext' = MapTarget(B3DB)
    /\ log' = <<"loading", "total", "training">>
    /\ IF SplitRaises(MapTarget(B3DB))
       THEN /\ pc' = "failed"
            /\ UNCHANGED <<train, test, rng>>
       ELSE \E s \in SeededStreams(rng) :
               /\ rng' = <<s>>
               /\ train' = StratifiedSplit(MapTarget(B3DB), s).train
               /\ test' = StratifiedSplit(MapTarget(B3DB), s).test
               /\ pc' = "split"
    /\ UNCHANGED <<B3DB, model, modelFile, csvFile, runs, firstDone>>
    /\ UNCHANGED uivars

\* Steps 4-5: fit the classifier, predict on the test subset, report the accuracy
FitAndEvaluate ==
    /\ pc = "split"
    /\ model' = Fit(train, y_ext)
    /\ log' = log \o <<"accuracy", "report">>
    /\ pc' = "evaluated"
    /\ UNCHANGED <<B3DB, rng, df_ext, y_ext, train, test, modelFile, csvFile, runs,
                   firstDone>>
    /\ UNCHANGED uivars

\* Step 6: joblib.dump writes MODEL_PATH in place; an I/O error while the file is
\* open leaves it partly written and ends the run
SaveModel ==
    /\ pc = "evaluated"
    /\ \/ /\ modelFile' = JoblibDump(modelFile, model)
          /\ log' = Append(log, "model saved")
          /\ pc' = "model_saved"
       \/ /\ modelFile' = [state |-> "partial", model |-> NoModel]
          /\ pc' = "failed"
          /\ UNCHANGED log
    /\ UNCHANGED <<B3DB, rng, df_ext, y_ext, train, test, model, csvFile, runs, firstDone>>
    /\ UNCHANGED uivars

\* Step 7: filter the BBB+ rows, keep two columns, write CSV_PATH in place; an I/O
\* error on opening the file (it is locked, or not writable) ends the run
ExtractCandidates ==
    /\ pc = "model_saved"
    /\ LET bbb_positive == BBBPositive(df_ext)
           final_list == SelectColumns(bbb_positive)
       IN  \/ /\ csvFile' = ToCsv(csvFile, final_list)
              /\ log' = log \o <<"extracting", "candidate list saved", "count">>
              /\ pc' = "done"
              /\ firstDone' = IF firstDone.set THEN firstDone
                              ELSE [set |-> TRUE, run |-> runs, modelFile |-> modelFile,
                                    csvFile |-> ToCsv(csvFile, final_list)]
           \/ /\ log' = Append(log, "extracting")
              /\ pc' = "failed"
              /\ UNCHANGED <<csvFile, firstDone>>
    /\ UNCHANGED <<B3DB, rng, df_ext, y_ext, train, test, model, modelFile, runs>>
    /\ UNCHANGED uivars

\* The script is run again on the same dataset
RunAgain ==
    /\ pc \in {"done", "failed"}
    /\ runs < MaxRuns
    /\ runs' = runs + 1
    /\ pc' = "start"
    /\ df_ext' = <<>>
    /\ y_ext' = <<>>
    /\ train' = <<>>
    /\ test' = <<>>
    /\ model' = NoModel
    /\ log' = <<>>
    /\ UNCHANGED <<B3DB, rng, modelFile, csvFile, firstDone>>
    /\ UNCHANGED uivars



----------------------------------------------------------------------------
\* Dashboard (ui/app.py): data

DisplayLimit == 5          \* drug_papers.head(5)
TopNMin == 5               \* st.slider("Display Top N Candidates", 5, 100, 15)
TopNDefault == 15
MinConfidenceMax == 100    \* st.slider("Min. Confidence Score", 0.0, 1.0, 0.0), in hundredths

TopNChoices == {TopNMin, TopNDefault}
MinConfidenceChoices == {0, MinConfidenceMax}
Queries == {"", "a"}

\* Drug names, in the order Python compares strings ("A" < "a" < "b")
NameOrder == <<"A", "a", "b">>
NameRank(x) == CHOOSE i \in 1..Len(NameOrder) : NameOrder[i] = x

\* str.lower()
Lower(x) == IF x = "A" THEN "a" ELSE x

\* str.upper() on a direction
Upper(d) ==
    CASE d = "positive" -> "POSITIVE"
      [] d = "negative" -> "NEGATIVE"
      [] OTHER -> "NEUTRAL"

\* A row of the final ranked table.  Scores are in tenths, confidence in hundredths of
\* the unit the file stores.
FinalRow(name, score, papers, conf) ==
    [drug_name |-> name, final_score |-> score, phase2_score |-> score,
     signed_score |-> 0, n_papers |-> papers, confidence |-> conf,
     models |-> "m", net_positive |-> papers]

F1 == FinalRow("A", 9, 3, 8000)
F2 == FinalRow("a", 9, 3, 0)
F3 == FinalRow("b", 9, 1, 8000)
F4 == FinalRow("A", 5, 4, 100)
F5 == FinalRow("b", 5, 4, 8000)

\* A row of the evidence table
PaperRow(drug, title, direction) ==
    [drug |-> drug, title |-> title, pub_year |-> "2020", model |-> "mouse",
     direction |-> direction, outcomes |-> "o"]

P1 == PaperRow("a", "t1", "positive")
P2 == PaperRow("a", "t2", "negative")
P3 == PaperRow("A", "t1", "neutral")

\* A CSV file on disk: absent, unreadable (pd.read_csv raises on it) or a table
AbsentFile == [state |-> "absent", rows |-> <<>>]
UnreadableFile == [state |-> "unreadable", rows |-> <<>>]
TableFile(rows) == [state |-> "present", rows |-> rows]
Files(tables) == {AbsentFile, UnreadableFile} \cup {TableFile(t) : t \in tables}

\* A DataFrame: pd.DataFrame() has no columns, a frame read from a table has them
EmptyFrame == [columns |-> FALSE, rows |-> <<>>]
Frame(rows) == [columns |-> TRUE, rows |-> rows]

\* DataFrame.empty
IsEmpty(df) == df.rows = <<>>

----------------------------------------------------------------------------
\* load_data()

\* The body of load_data: what it returns for the files as they are now
LoadDataBody(final, papers) ==
    IF final.state = "absent"
    THEN [final_df |-> EmptyFrame, papers_df |-> EmptyFrame, error |-> FALSE]
    ELSE IF final.state = "unreadable"
            \/ papers.state = "unreadable"          \* except Exception: st.error(...)
    THEN [final_df |-> EmptyFrame, papers_df |-> EmptyFrame, error |-> TRUE]
    ELSE [final_df |-> Frame(final.rows),
          papers_df |-> IF papers.state = "present" THEN Frame(papers.rows)
                        ELSE EmptyFrame,
          error |-> FALSE]

NoCache == [filled |-> FALSE, value |-> LoadDataBody(AbsentFile, AbsentFile)]

\* @st.cache_data: the first call runs the body and stores the result, every later
\* call returns the stored result
CachedLoadData(c, final, papers) ==
    IF c.filled THEN c.value ELSE LoadDataBody(final, papers)

----------------------------------------------------------------------------
\* The analysis page, section by section

\* final_df[final_df['confidence'] >= min_confidence]
FilterStrict(df, min_confidence) ==
    Mask(df.rows, [i \in 1..Len(df.rows) |-> df.rows[i].confidence > min_confidence])
FilterByConfidence(df, min_confidence) ==
    Mask(df.rows, [i \in 1..Len(df.rows) |-> df.rows[i].confidence >= min_confidence])

\* filtered_df[display_cols]
DisplayCols(r) ==
    [drug_name |-> r.drug_name, final_score |-> r.final_score,
     phase2_score |-> r.phase2_score, signed_score |-> r.signed_score,
     n_papers |-> r.n_papers, confidence |-> r.confidence]

\* filtered_df[display_cols].head(top_n)
Leaderboard(filtered, top_n) ==
    Take([i \in 1..Len(filtered) |-> DisplayCols(filtered[i])], top_n)

\* Series.str.contains(search_query, case=False, na=False); the names and queries of
\* the model are single letters, for which containment is equality
Contains(name, query) == Lower(name) = Lower(query)

\* the search box decides the rows the select box offers
DropdownOptions(df, search_query, top_n) ==
    IF search_query # ""
    THEN Mask(df.rows, [i \in 1..Len(df.rows) |-> Contains(df.rows[i].drug_name, search_query)])
    ELSE Take(df.rows, top_n)

\* Series.unique(): the distinct values in order of first appearance
RECURSIVE Unique(_)
Unique(s) ==
    IF s = <<>> THEN <<>>
    ELSE LET r == Unique(SubSeq(s, 1, Len(s) - 1))
         IN  IF s[Len(s)] \in Range(r) THEN r ELSE Append(r, s[Len(s)])

OptionNames(options) == Unique([i \in 1..Len(options) |-> options[i].drug_name])

\* papers_df[papers_df["drug"] == selected_drug]
MatchIgnoreCase(row, selected_drug) == Lower(row.drug) = Lower(selected_drug)
MatchDrug(row, selected_drug) == row.drug = selected_drug

DrugPapers(papers_df, selected_drug) ==
    Mask(papers_df.rows,
         [i \in 1..Len(papers_df.rows) |-> MatchDrug(papers_df.rows[i], selected_drug)])

\* drug_papers.head(5)
HeadPapers(drug_papers) == Take(drug_papers, DisplayLimit)

\* one evidence card
Card(row) ==
    [title |-> row.title, pub_year |-> row.pub_year, model |-> row.model,
     direction |-> Upper(row.direction),
     color |-> IF row.direction = "positive" THEN "#00E5FF" ELSE "#FF5252",
     outcomes |-> row.outcomes]

NoEvidence == [state |-> "none", records |-> <<>>, cards |-> <<>>]

\* The evidence stream of the selected drug; indexing a frame without columns by
\* "drug" raises KeyError
EvidenceStream(papers_df, selected_drug) ==
    IF ~papers_df.columns
    THEN [state |-> "KeyError", records |-> <<>>, cards |-> <<>>]
    ELSE LET drug_papers == DrugPapers(papers_df, selected_drug)
             shown == HeadPapers(drug_papers)
         IN  IF drug_papers = <<>>
             THEN [state |-> "empty", records |-> <<>>, cards |-> <<>>]
             ELSE [state |-> "cards", records |-> shown,
                   cards |-> [i \in 1..Len(shown) |-> Card(shown[i])]]

NoLeaderboard == [shown |-> FALSE, rows |-> <<>>]

BlankPage ==
    [status |-> "none", final_df |-> EmptyFrame, papers_df |-> EmptyFrame,
     load_error |-> FALSE, top_n |-> TopNDefault, min_confidence |-> 0,
     search_query |-> "", metric |-> 0, chart |-> "none", leaderboard |-> NoLeaderboard,
     inspector |-> "none", selected |-> "", profile |-> <<>>, evidence |-> NoEvidence]

\* final_df[final_df["drug_name"] == selected_drug].iloc[0]
DrugRow(df, selected_drug) ==
    Mask(df.rows, [i \in 1..Len(df.rows) |-> df.rows[i].drug_name = selected_drug])[1]

\* The script from "elif page_selection == Analysis Dashboard" to its end, given what
\* load_data returned and the widgets' values; pick is the select box's position
AnalysisPage(data, top_n, min_confidence, search_query, pick) ==
    LET final_df == data.final_df
        papers_df == data.papers_df
        base == [BlankPage EXCEPT !.final_df = final_df, !.papers_df = papers_df,
                                  !.load_error = data.error, !.top_n = top_n,
                                  !.min_confidence = min_confidence,
                                  !.search_query = search_query]
    IN  IF IsEmpty(final_df)
        THEN [base EXCEPT !.status = "not_found"]                       \* st.stop()
        ELSE
        LET filtered_df == FilterByConfidence(final_df, min_confidence)
            upper == [base EXCEPT
                        !.metric = Len(final_df.rows),
                        !.chart = IF filtered_df # <<>> THEN "scatter" ELSE "warning",
                        !.leaderboard =
                            IF filtered_df = <<>> THEN NoLeaderboard
                            ELSE [shown |-> TRUE, rows |-> Leaderboard(filtered_df, top_n)]]
            dropdown_options == DropdownOptions(final_df, search_query, top_n)
        IN  IF dropdown_options = <<>>
            THEN [upper EXCEPT !.status = "rendered", !.inspector = "no_match"]
            ELSE
            LET names == OptionNames(dropdown_options)
                selected_drug == names[IF pick <= Len(names) THEN pick ELSE 1]
                stream == EvidenceStream(papers_df, selected_drug)
            IN  [upper EXCEPT
                   !.status = IF stream.state = "KeyError" THEN "KeyError" ELSE "rendered",
                   !.inspector = "shown",
                   !.selected = selected_drug,
                   !.profile = <<DrugRow(final_df, selected_drug)>>,
                   !.evidence = stream]

----------------------------------------------------------------------------
\* Dashboard: actions

\* A script run with "Project Overview" selected: load_data is not called
RenderOverview ==
    /\ page' = [BlankPage EXCEPT !.status = "overview"]
    /\ UNCHANGED <<finalFile, papersFile, cache, diskAtRender, edits>>
    /\ UNCHANGED p1vars

\* A script run with "Analysis Dashboard" selected; the widgets hold a value of
\* topNs, minConfs, queries and the select box stands at one of picks
RenderAnalysis(topNs, minConfs, queries, picks) ==
    /\ \E top_n \in topNs, min_confidence \in minConfs, search_query \in queries,
          pick \in picks :
          LET data == CachedLoadData(cache, finalFile, papersFile)
          IN  /\ cache' = [filled |-> TRUE, value |-> data]
              /\ page' = AnalysisPage(data, top_n, min_confidence, search_query, pick)
    /\ diskAtRender' = <<finalFile, papersFile>>
    /\ UNCHANGED <<finalFile, papersFile, edits>>
    /\ UNCHANGED p1vars

\* The pipeline regenerates FINAL_PATH and PAPERS_PATH wholesale (or they are removed)
PipelineWrites(finalTables, papersTables) ==
    /\ edits < MaxEdits
    /\ edits' = edits + 1
    /\ finalFile' \in Files(finalTables)
    /\ papersFile' \in Files(papersTables)
    /\ UNCHANGED <<cache, page, diskAtRender>>
    /\ UNCHANGED p1vars

----------------------------------------------------------------------------
\* Tables the dashboard is run on

\* r1 may stand before r2 in the ranking: final_score descending, then n_papers
\* descending, then drug_name ascending
InOrder(r1, r2) ==
    \/ r1.final_score > r2.final_score
    \/ /\ r1.final_score = r2.final_score
       /\ \/ r1.n_papers > r2.n_papers
          \/ /\ r1.n_papers = r2.n_papers
             /\ NameRank(r1.drug_name) <= NameRank(r2.drug_name)

IsRanked(t) == \A i \in 1..(Len(t) - 1) : InOrder(t[i], t[i + 1])

FinalRows == {F1, F2, F3, F4, F5}
PaperRows == {P1, P2, P3}

RECURSIVE RankedUpTo(_)
RankedUpTo(k) ==
    IF k = 0 THEN {<<>>}
    ELSE LET prev == RankedUpTo(k - 1)
             longest == {t \in prev : Len(t) = k - 1}
         IN  prev \cup {Append(x[1], x[2]) :
                          x \in {y \in longest \X FinalRows :
                                   y[1] = <<>> \/ InOrder(y[1][Len(y[1])], y[2])}}

RankedTables == RankedUpTo(MaxFinal)
SmallFinalTables == SeqsUpTo({F1, F3}, MaxSmall)
SmallPapersTables == SeqsUpTo({P1, P3}, MaxSmall)
InspectedTables == {<<F1>>, <<F2, F1>>}
PapersTables == SeqsUpTo(PaperRows, MaxPapers)

----------------------------------------------------------------------------
\* Specifications

P1Idle ==
    /\ B3DB = <<>>
    /\ rng = <<>>
    /\ pc = "off"
    /\ df_ext = <<>>
    /\ y_ext = <<>>
    /\ train = <<>>
    /\ test = <<>>
    /\ model = NoModel
    /\ log = <<>>
    /\ modelFile = AbsentModelFile
    /\ csvFile = AbsentCsvFile
    /\ runs = 0
    /\ firstDone = NotDone

UIStart ==
    /\ cache = NoCache
    /\ page = BlankPage
    /\ diskAtRender = <<AbsentFile, AbsentFile>>
    /\ edits = 0

UIIdle ==
    /\ finalFile = AbsentFile
    /\ papersFile = AbsentFile
    /\ UIStart

\* The phase-1 script, run up to MaxRuns times on one dataset
Init == P1Init /\ UIIdle
Next ==
    \/ LoadAndSplit
    \/ FitAndEvaluate
    \/ SaveModel
    \/ ExtractCandidates
    \/ RunAgain
Spec == Init /\ [][Next]_vars

\* The dashboard while the pipeline rewrites its tables
UIInit ==
    /\ P1Idle
    /\ finalFile \in Files(SmallFinalTables)
    /\ papersFile \in Files(SmallPapersTables)
    /\ UIStart
UINext ==
    \/ RenderOverview
    \/ RenderAnalysis({TopNMin}, MinConfidenceChoices, Queries, {1})
    \/ PipelineWrites(SmallFinalTables, SmallPapersTables)
SpecUI == UIInit /\ [][UINext]_vars

\* The dashboard on a ranked final table
LeaderboardInit ==
    /\ P1Idle
    /\ finalFile \in {TableFile(t) : t \in RankedTables}
    /\ papersFile = TableFile(<<P1>>)
    /\ UIStart
LeaderboardNext ==
    \/ RenderOverview
    \/ RenderAnalysis(TopNChoices, MinConfidenceChoices, {""}, {1})
SpecLeaderboard == LeaderboardInit /\ [][LeaderboardNext]_vars

\* The dashboard on an evidence table
EvidenceInit ==
    /\ P1Idle
    /\ finalFile \in {TableFile(t) : t \in InspectedTables}
    /\ papersFile \in {TableFile(t) : t \in PapersTables}
    /\ UIStart
EvidenceNext ==
    \/ RenderOverview
    \/ RenderAnalysis({TopNDefault}, {0}, Queries, {1, 2})
SpecEvidence == EvidenceInit /\ [][EvidenceNext]_vars



----------------------------------------------------------------------------
\* Properties of the phase-1 run (specification Spec)

Min(a, b) == IF a < b THEN a ELSE b

Printed(tag) == tag \in Range(log)

Pair(r) == <<r.compound_name, r.SMILES>>

PositiveRows(t) == SelectSeq(t, LAMBDA r : r.label = "BBB+")

PositivePairs(t) == [i \in 1..Len(PositiveRows(t)) |-> Pair(PositiveRows(t)[i])]

HasBadLabel(t) == \E i \in 1..Len(t) : t[i].label \notin {"BBB+", "BBB-"}

Untouched(f) == f.state \in {"absent", "stale"}

\* C1: the candidate CSV a run has written holds exactly the (compound_name, SMILES)
\* pairs of the rows labelled BBB+, one output row per such row, in the table's order
C1_CandidatesAreThePositiveRows ==
    csvFile.state = "written" =>
        /\ csvFile.header = <<"compound_name", "SMILES">>
        /\ csvFile.rows = PositivePairs(B3DB)
        /\ \A i \in 1..Len(B3DB) :
              B3DB[i].label = "BBB-" /\ ~(\E j \in 1..Len(B3DB) :
                                            B3DB[j].label = "BBB+" /\ Pair(B3DB[j]) = Pair(B3DB[i]))
                  => Pair(B3DB[i]) \notin Range(csvFile.rows)

\* a run has written the CSV of a table that holds the same BBB+ compound twice, another
\* BBB+ compound after it, and BBB- rows
C1_Witness ==
    /\ pc = "done"
    /\ csvFile.state = "written"
    /\ \E i, j, k \in 1..Len(csvFile.rows) :
          i < j /\ j < k /\ csvFile.rows[i] = csvFile.rows[j] /\ csvFile.rows[j] # csvFile.rows[k]
    /\ \E i \in 1..Len(B3DB) : B3DB[i].label = "BBB-"

\* C3: with a label outside {BBB+, BBB-} in the table, the run gets no further than the
\* split, where it fails, and neither output file is created or overwritten
C3_BadLabelAbortsBeforeOutput ==
    HasBadLabel(B3DB) =>
        /\ pc \in {"start", "failed"}
        /\ Untouched(modelFile)
        /\ Untouched(csvFile)
        /\ ~Printed("model saved")
        /\ ~Printed("candidate list saved")

\* the second run on a table whose only flaw is one bad label has failed, and the files
\* of old are as they were
C3_Witness ==
    /\ HasBadLabel(B3DB)
    /\ Len(B3DB) = MaxRows
    /\ Cardinality({i \in 1..Len(B3DB) : B3DB[i].label = "BBB+"}) >= 2
    /\ Cardinality({i \in 1..Len(B3DB) : B3DB[i].label = "BBB-"}) >= 2
    /\ pc = "failed"
    /\ runs = MaxRuns
    /\ modelFile = StaleModelFile
    /\ csvFile = StaleCsvFile

\* C4 (as claimed): a run that has failed has written both outputs completely or neither,
\* and has left no partly written file
C4_FailedRunLeavesBothOrNeither ==
    pc = "failed" =>
        /\ modelFile.state # "partial"
        /\ csvFile.state # "partial"
        /\ Printed("model saved") <=> Printed("candidate list saved")

\* C6 (as claimed): on a table of two or more rows, all labelled BBB-, the run is not
\* aborted by any of its steps, and it ends with an empty candidate table and a warning
C6_NoPositivesDegradesWithWarning ==
    (/\ Len(B3DB) >= 2
     /\ \A i \in 1..Len(B3DB) : B3DB[i].label = "BBB-") =>
        /\ (pc = "failed" => Printed("accuracy"))
        /\ (pc = "done" => /\ csvFile.state = "written"
                           /\ csvFile.rows = <<>>
                           /\ Printed("warning"))

\* C7: a later completed run leaves the model artifact and the candidate CSV exactly as
\* the first completed run left them
C7_SecondRunLeavesTheSameOutputs ==
    (pc = "done" /\ firstDone.set) =>
        /\ modelFile = firstDone.modelFile
        /\ csvFile = firstDone.csvFile
        /\ modelFile.state = "written"
        /\ csvFile.state = "written"

\* the first run completed over files of old, and the second run has completed too, on
\* a table with candidates
C7_Witness ==
    /\ pc = "done"
    /\ firstDone.set
    /\ firstDone.run = 1
    /\ runs = 2
    /\ Len(csvFile.rows) >= 2
    /\ firstDone.csvFile.rows # StaleCsvFile.rows
    /\ <<"z", "P">> \notin Range(csvFile.rows)

LabelCount(rows, l) == Cardinality({j \in 1..Len(rows) : B3DB[rows[j]].label = l})

WithinOneRow(part, l) ==
    LET n == Len(B3DB)
        whole == Cardinality({i \in 1..n : B3DB[i].label = l})
        d == LabelCount(part, l) * n - whole * Len(part)
    IN  d < n /\ -d < n

HasSplit == train # <<>> \/ test # <<>>

\* C8: the split is a partition of the rows, the test subset is 0.2 of them rounded up,
\* and each class's share of each subset is within one row of its share of the table
C8_SplitIsStratifiedPartition ==
    HasSplit =>
        LET n == Len(B3DB) IN
        /\ Range(train) \cap Range(test) = {}
        /\ Cardinality(Range(train)) = Len(train)
        /\ Cardinality(Range(test)) = Len(test)
        /\ Range(train) \cup Range(test) = 1..n
        /\ Len(train) + Len(test) = n
        /\ 100 * Len(test) >= TestPercent * n
        /\ 100 * (Len(test) - 1) < TestPercent * n
        /\ \A l \in {"BBB+", "BBB-"} : WithinOneRow(train, l) /\ WithinOneRow(test, l)

\* a table of both classes in unequal numbers, whose first rows are all of one class, has
\* been split
C8_Witness ==
    /\ pc = "split"
    /\ Len(B3DB) = MaxRows
    /\ LabelCount(train \o test, "BBB+") = 2
    /\ LabelCount(train \o test, "BBB-") = MaxRows - 2
    /\ B3DB[1].label = "BBB+"
    /\ B3DB[2].label = "BBB+"
    /\ LabelCount(test, "BBB+") < 2

----------------------------------------------------------------------------
\* Properties of the dashboard

Analysed == page.status \in {"not_found", "rendered", "KeyError"}

\* C2 (as claimed): no render of the analysis page ends in an unhandled error, and with
\* the final table loaded and the evidence table absent the evidence stream of the
\* selected drug is the 'no literature entries' empty state.  Specification: SpecUI.
C2_RenderNeverFaults ==
    /\ page.status # "KeyError"
    /\ (page.inspector = "shown" /\ ~page.papers_df.columns) => page.evidence.state = "empty"

MatchingRecords == SelectSeq(page.papers_df.rows, LAMBDA r : r.drug = page.selected)

\* C5: with an evidence table loaded, the evidence stream of the selected drug is the
\* first min(5, k) of the k records whose drug is exactly the selected name, in the
\* table's order, one card per record; with k = 0 it is the empty state, and no error.
\* Specification: SpecEvidence.
C5_EvidenceIsFirstFiveMatches ==
    (page.inspector = "shown" /\ page.papers_df.columns) =>
        LET k == Len(MatchingRecords) IN
        /\ page.status = "rendered"
        /\ IF k = 0
           THEN page.evidence = [state |-> "empty", records |-> <<>>, cards |-> <<>>]
           ELSE /\ page.evidence.state = "cards"
                /\ page.evidence.records = SubSeq(MatchingRecords, 1, Min(DisplayLimit, k))
                /\ Len(page.evidence.cards) = Min(DisplayLimit, k)
                /\ \A i \in 1..Min(DisplayLimit, k) :
                      /\ page.evidence.cards[i].title = MatchingRecords[i].title
                      /\ page.evidence.cards[i].outcomes = MatchingRecords[i].outcomes

\* six records of the selected drug with differing titles, a record of the same name in
\* another case among the first rows: five cards are shown
C5_Witness ==
    /\ page.status = "rendered"
    /\ page.inspector = "shown"
    /\ Len(MatchingRecords) = DisplayLimit + 1
    /\ Len(page.evidence.records) = DisplayLimit
    /\ page.papers_df.rows[2].drug # page.selected
    /\ Lower(page.papers_df.rows[2].drug) = Lower(page.selected)
    /\ MatchingRecords[1].title # MatchingRecords[DisplayLimit + 1].title

Passing == SelectSeq(page.final_df.rows, LAMBDA r : r.confidence >= page.min_confidence)

SameCandidate(shown, r) ==
    /\ shown.drug_name = r.drug_name
    /\ shown.final_score = r.final_score
    /\ shown.n_papers = r.n_papers
    /\ shown.confidence = r.confidence

\* C9: on a final table in ranking order, the leaderboard is the first top_n of the
\* candidates with confidence >= min_confidence, row for row, and is in ranking order
\* itself; with no such candidate no leaderboard is shown.  Specification: SpecLeaderboard.
C9_LeaderboardIsFilteredPrefix ==
    (page.status \in {"rendered", "KeyError"} /\ IsRanked(page.final_df.rows)) =>
        IF Passing = <<>>
        THEN ~page.leaderboard.shown
        ELSE /\ page.leaderboard.shown
             /\ Len(page.leaderboard.rows) = Min(page.top_n, Len(Passing))
             /\ \A i \in 1..Len(page.leaderboard.rows) :
                   SameCandidate(page.leaderboard.rows[i], Passing[i])
             /\ IsRanked(page.leaderboard.rows)

\* seven ranked candidates, one under the threshold among the first five, six passing:
\* the leaderboard shows five, and ties at every level of the order occur in it
C9_Witness ==
    /\ page.status = "rendered"
    /\ page.leaderboard.shown
    /\ Len(page.final_df.rows) = TopNMin + 2
    /\ Len(Passing) = TopNMin + 1
    /\ Len(page.leaderboard.rows) = TopNMin
    /\ \E i \in 1..TopNMin : page.final_df.rows[i].confidence < page.min_confidence
    /\ \E i \in 1..(TopNMin - 1) :
          /\ page.leaderboard.rows[i].final_score = page.leaderboard.rows[i + 1].final_score
          /\ page.leaderboard.rows[i].n_papers > page.leaderboard.rows[i + 1].n_papers

\* C10 (as claimed): what a render of the analysis page has loaded is what the two table
\* files held at the time of that render.  Specification: SpecUI.
C10_RenderShowsCurrentFiles ==
    Analysed =>
        /\ page.final_df = LoadDataBody(diskAtRender[1], diskAtRender[2]).final_df
        /\ page.papers_df = LoadDataBody(diskAtRender[1], diskAtRender[2]).papers_df


====
